---- MODULE Spec2Model ----
(***************************************************************************)
(* A model of the monitoring wrapper of src/decorator.py                   *)
(* (monitor_function.decorator.wrapper) and of the callables of            *)
(* src/main.py it is applied to.                                           *)
(*                                                                         *)
(* One invocation of a wrapped callable is a frame that walks through the  *)
(* wrapper's body: input validation, the call of the underlying callable,  *)
(* output validation, envelope construction, logging and return.  A        *)
(* callable decorated several times is a stack of such frames: the         *)
(* underlying callable of an outer wrapper is the next wrapper.            *)
(*                                                                         *)
(* Python values are records [kind, cls, payload]; the payload of a        *)
(* mapping, of an object (its __dict__) or of a BaseModel instance maps    *)
(* field names to the Python literal held, written as in the source:       *)
(* "30" is the int 30, "30.0" the float 30.0, "True" the bool True and     *)
(* "'30'" the str '30'.  The literals are individual values, not classes   *)
(* of values.                                                              *)
(*                                                                         *)
(* Only positional arguments are modelled, and an exception is one         *)
(* deriving from Exception.  Clock, memory and CPU samples do not          *)
(* influence control flow and are left out of the envelope.  The           *)
(* interpreter, the installed pydantic and the LOG_LEVEL environment       *)
(* variable are fixed when the module is loaded.                           *)
(***************************************************************************)
EXTENDS Integers, Sequences, FiniteSets, TLC

VARIABLES
    func,       \* the decorated callable (fixed at decoration time)
    opts,       \* the options given to monitor_function
    wraps,      \* how many times the decorator was applied to func
    args,       \* the positional arguments of the current call
    frames,     \* the stack of wrapper invocations, outermost first
    python,     \* the interpreter the module is loaded by
    metaclass,  \* the __subclasscheck__ of the installed BaseModel's metaclass
    LOG_LEVEL,  \* the threshold the logger was configured with
    log,        \* the calls made on the logger during the current call
    emitted,    \* the records the logger wrote during the current call
    ret,        \* what the caller received
    invoked,    \* how many times func's body ran during the current call
    received,   \* the arguments func's body received
    body        \* what func's body did: [raised, value]

vars ==
    <<func, opts, wraps, python, metaclass, LOG_LEVEL, args, frames, log,
      emitted, ret, invoked, received, body>>

(***************************************************************************)
(* Bounds                                                                  *)
(***************************************************************************)
MaxArgs == 2
MaxWraps == 2

(***************************************************************************)
(* Python values                                                           *)
(***************************************************************************)
EmptyPayload == [f \in {} |-> ""]

NoneV == [kind |-> "none", cls |-> "", payload |-> EmptyPayload]

Num == [kind |-> "num", cls |-> "", payload |-> EmptyPayload]

Text == [kind |-> "str", cls |-> "", payload |-> EmptyPayload]

Dict(p) == [kind |-> "dict", cls |-> "", payload |-> p]

Obj(p) == [kind |-> "obj", cls |-> "", payload |-> p]

Model(c, p) == [kind |-> "model", cls |-> c, payload |-> p]

\* UserInput(name="John Doe", age=30, email="john@example.com")
GoodUser ==
    [name |-> "'John Doe'", age |-> "30", email |-> "'john@example.com'"]

\* {"name": "John", "age": "thirty", "email": "invalid"}
MistypedUser ==
    [name |-> "'John'", age |-> "'thirty'", email |-> "'invalid'"]

\* {"name": "John", "age": "30", "email": "invalid"}
NumericStringUser ==
    [name |-> "'John'", age |-> "'30'", email |-> "'invalid'"]

\* {"name": "John", "age": 30}: the email is missing
MissingField == [name |-> "'John'", age |-> "30"]

\* UserOutput(id=12345, name=..., age=..., email=..., created_at=<iso time>)
GoodOutput ==
    [id |-> "12345", name |-> "'John Doe'", age |-> "30",
     email |-> "'john@example.com'", created_at |-> "'2025-01-01T00:00:00'"]

\* {"id": 30.0, "name": "John Doe", "age": True,
\*  "email": "john@example.com", "created_at": "2025-01-01T00:00:00"}
CoercedOutput ==
    [id |-> "30.0", name |-> "'John Doe'", age |-> "True",
     email |-> "'john@example.com'", created_at |-> "'2025-01-01T00:00:00'"]

\* {"id": 1e19, "name": "John Doe", "age": 30,
\*  "email": "john@example.com", "created_at": "2025-01-01T00:00:00"}
BigIdOutput ==
    [id |-> "1e19", name |-> "'John Doe'", age |-> "30",
     email |-> "'john@example.com'", created_at |-> "'2025-01-01T00:00:00'"]

Shapes == {"UserInput", "UserOutput"}

\* The declared fields of the BaseModel subclasses.
ShapeFields(shape) ==
    IF shape = "UserInput" THEN [name |-> "str", age |-> "int", email |-> "str"]
    ELSE IF shape = "UserOutput" THEN
        [id |-> "int", name |-> "str", age |-> "int", email |-> "str",
         created_at |-> "str"]
    ELSE EmptyPayload

\* The int and the str literals of the payloads.
IntLiterals == {"30", "12345"}

StrLiterals ==
    {"'John Doe'", "'John'", "'john@example.com'", "'invalid'", "'thirty'",
     "'30'", "'2025-01-01T00:00:00'"}

\* pydantic's lax-mode validation of one field holding one of the literals:
\* an int field takes 30 and 12345, True, 30.0 and '30' (coercing them) and
\* rejects 1e19 (int_parsing_size), 30.5 and every other str literal; a str
\* field takes the str literals and nothing else.
Accepts(declared, held) ==
    IF declared = "int" THEN held \in IntLiterals \cup {"True", "30.0", "'30'"}
    ELSE IF declared = "str" THEN held \in StrLiterals
    ELSE FALSE

\* BaseModel.__init__(**payload): every declared field is present and holds
\* a value the field accepts (coercing it); undeclared keys are ignored.
Validate(shape, payload) ==
    \A f \in DOMAIN ShapeFields(shape) :
        f \in DOMAIN payload /\ Accepts(ShapeFields(shape)[f], payload[f])

\* The keys of ExecutionResult.model_dump().
EnvelopeKeys ==
    {"result", "status", "errors", "execution_time", "memory_usage",
     "cpu_usage", "timestamp", "function_name"}

\* The mapping a value offers to a constructor: a dict itself, or __dict__.
PayloadOf(v) ==
    IF v.kind = "envelope" THEN [k \in EnvelopeKeys |-> "any"] ELSE v.payload

IsDict(v) == v.kind \in {"dict", "envelope"}

HasDict(v) == v.kind \in {"obj", "model"}

IsInstance(v, shape) == v.kind = "model" /\ v.cls = shape

\* The values a caller passes.
ArgVals ==
    {Num, Dict(MistypedUser), Dict(NumericStringUser), Obj(MissingField),
     Model("UserInput", GoodUser)}

\* The values a function body returns.
RetVals ==
    {Num, NoneV, Dict(CoercedOutput), Dict(BigIdOutput), Obj(MissingField),
     Model("UserOutput", GoodOutput)}

(***************************************************************************)
(* The callables the decorator is applied to                               *)
(***************************************************************************)
Param(n, h, req, d) == [name |-> n, hint |-> h, required |-> req, default |-> d]

\* def divide_numbers(a: float, b: float) -> float
divide_numbers ==
    [name |-> "divide_numbers",
     params |-> <<Param("a", "float", TRUE, NoneV),
                  Param("b", "float", TRUE, NoneV)>>,
     ret |-> "float"]

\* def create_user(user_data: UserInput) -> UserOutput
create_user ==
    [name |-> "create_user",
     params |-> <<Param("user_data", "UserInput", TRUE, NoneV)>>,
     ret |-> "UserOutput"]

\* def merge_users(first: UserInput, second: UserInput) -> UserOutput
merge_users ==
    [name |-> "merge_users",
     params |-> <<Param("first", "UserInput", TRUE, NoneV),
                  Param("second", "UserInput", TRUE, NoneV)>>,
     ret |-> "UserOutput"]

\* def greet(user_data: UserInput, greeting: str = "Hello")
greet ==
    [name |-> "greet",
     params |-> <<Param("user_data", "UserInput", TRUE, NoneV),
                  Param("greeting", "str", FALSE, Text)>>,
     ret |-> ""]

\* def tally(items: list[int], names: List[str]) -> list[int]
\* (list[int] is the builtin generic alias, List the one of typing)
tally ==
    [name |-> "tally",
     params |-> <<Param("items", "list[int]", TRUE, NoneV),
                  Param("names", "List[str]", TRUE, NoneV)>>,
     ret |-> "list[int]"]

\* def plain(a, b): no annotation at all
plain ==
    [name |-> "plain",
     params |-> <<Param("a", "", TRUE, NoneV), Param("b", "", TRUE, NoneV)>>,
     ret |-> ""]

Funcs == {divide_numbers, create_user, merge_users, greet, tally, plain}

\* monitor_function(validate_input, validate_output, log_execution,
\*                  log_level, return_raw_result)
LogLevels == {"INFO", "DEBUG", "debug"}

Options ==
    [validate_input : BOOLEAN, validate_output : BOOLEAN,
     log_execution : BOOLEAN, log_level : LogLevels,
     return_raw_result : BOOLEAN]

\* The options of the idempotence property: no validation, no logging.
PlainOptions ==
    {o \in Options : ~o.validate_input /\ ~o.validate_output
                     /\ ~o.log_execution /\ o.log_level = "INFO"}

\* str.upper()
Upper(s) == IF s = "debug" THEN "DEBUG" ELSE s

(***************************************************************************)
(* Signature, type hints and binding                                       *)
(***************************************************************************)
\* get_type_hints(func): the annotated parameters, and "return" when the
\* return type is annotated.
TypeHints(f) ==
    {f.params[i].name : i \in {j \in 1..Len(f.params) : f.params[j].hint # ""}}
    \cup (IF f.ret # "" THEN {"return"} ELSE {})

\* The interpreters: one of before 3.11, one of 3.11 or later.
Pythons == {"3.10", "3.11"}

\* The annotations that are plain classes other than BaseModel subclasses.
PlainClasses == {"float", "int", "str"}

\* isinstance(expected_type, type): true of a class; false of an alias of
\* typing; of a builtin generic alias, true before Python 3.11 and false
\* from 3.11 on.
IsType(hint, py) ==
    \/ hint \in Shapes \cup PlainClasses
    \/ hint = "list[int]" /\ py = "3.10"

\* The installed pydantic: the metaclass of BaseModel inherits
\* ABCMeta.__subclasscheck__, or sets __subclasscheck__ to
\* type.__subclasscheck__ (pydantic 2.13).  No version is pinned.
Metaclasses == {"ABCMeta", "type"}

\* issubclass(expected_type, BaseModel): of a builtin generic alias,
\* ABCMeta.__subclasscheck__ raises TypeError and type.__subclasscheck__
\* answers False; of anything else that is no class, both raise TypeError.
IsSubclass(hint, mc) ==
    IF hint \in Shapes THEN "True"
    ELSE IF hint \in PlainClasses THEN "False"
    ELSE IF hint = "list[int]" /\ mc = "type" THEN "False"
    ELSE "TypeError"

\* isinstance(expected_type, type) and issubclass(expected_type, BaseModel)
IsBaseModel(hint, env) ==
    IF IsType(hint, env.python) THEN IsSubclass(hint, env.metaclass)
    ELSE "False"

\* sig.bind(*args) succeeds: no argument too many, no required parameter
\* left without one.
Binds(f, a) ==
    /\ Len(a) <= Len(f.params)
    /\ \A i \in 1..Len(f.params) : f.params[i].required => i <= Len(a)

\* bound_args.apply_defaults(); bound_args.arguments, in parameter order.
BoundArguments(f, a) ==
    [i \in 1..Len(f.params) |->
        IF i <= Len(a) THEN a[i] ELSE f.params[i].default]

(***************************************************************************)
(* Error entries                                                           *)
(***************************************************************************)
Entry(pre, par, det) == [prefix |-> pre, param |-> par, detail |-> det]

InputFailed(p) == Entry("Input validation failed for", p, "ValidationError")

InputError(det) == Entry("Input validation error:", "", det)

OutputFailed == Entry("Output validation failed:", "", "ValidationError")

ExecutionError(det) == Entry("Execution error:", "", det)

Traceback(det) == Entry("Traceback:", "", det)

(***************************************************************************)
(* The accept-or-coerce check                                              *)
(***************************************************************************)
\* if not isinstance(v, shape):
\*     shape(**v if isinstance(v, dict) else v.__dict__)
\* "accept": already an instance; "ok": the constructor accepted;
\* otherwise the exception raised.
Coerce(v, shape) ==
    IF IsInstance(v, shape) THEN "accept"
    ELSE IF IsDict(v) \/ HasDict(v) THEN
        IF Validate(shape, PayloadOf(v)) THEN "ok" ELSE "ValidationError"
    ELSE "AttributeError"

\* The loop over bound_args.arguments: a ValidationError is recorded and the
\* loop goes on; any other exception leaves the loop and is recorded by the
\* enclosing handler.  Returns the errors and the parameters for which the
\* constructor call was attempted.
RECURSIVE ValidateParams(_, _, _, _, _)
ValidateParams(f, env, bound, i, acc) ==
    IF i > Len(bound) THEN acc
    ELSE
        LET p == f.params[i]
            m == IF p.name \in TypeHints(f) THEN IsBaseModel(p.hint, env)
                 ELSE "False"
            c == Coerce(bound[i], p.hint)
            tried == [acc EXCEPT !.attempted = @ \cup {p.name}]
        IN  IF m = "False" THEN ValidateParams(f, env, bound, i + 1, acc)
            ELSE IF m = "TypeError" THEN
                [acc EXCEPT !.errors = Append(@, InputError(m))]
            ELSE IF c = "accept" THEN ValidateParams(f, env, bound, i + 1, acc)
            ELSE IF c = "ok" THEN ValidateParams(f, env, bound, i + 1, tried)
            ELSE IF c = "ValidationError" THEN
                ValidateParams(f, env, bound, i + 1,
                    [tried EXCEPT !.errors = Append(@, InputFailed(p.name))])
            ELSE [tried EXCEPT !.errors = Append(@, InputError(c))]

\* if validate_input and type_hints:
InputValidationRuns(f, o) == o.validate_input /\ TypeHints(f) # {}

\* The input validation block of the wrapper.
ValidateInputs(f, o, env, a) ==
    IF ~InputValidationRuns(f, o) THEN [errors |-> <<>>, attempted |-> {}]
    ELSE IF ~Binds(f, a) THEN
        [errors |-> <<InputError("TypeError")>>, attempted |-> {}]
    ELSE ValidateParams(f, env, BoundArguments(f, a), 1,
                        [errors |-> <<>>, attempted |-> {}])

\* Mutant of ShouldExecute: the function is called whatever the errors.
ShouldExecute_Always(errors) == TRUE

\* if not errors:
ShouldExecute(errors) == errors = <<>>

(***************************************************************************)
(* Execution, output validation, envelope, logging, return                 *)
(***************************************************************************)
\* What a function body may do: raise, or return a value.
Outcomes ==
    {[raised |-> TRUE, value |-> NoneV]}
    \cup {[raised |-> FALSE, value |-> v] : v \in RetVals}

\* Mutant of OnException: the handler forgets to set the status.
OnException_NoStatus(fr, det) ==
    [fr EXCEPT !.errors = fr.errors \o <<ExecutionError(det), Traceback(det)>>,
               !.result = NoneV,
               !.pc = "envelope"]

\* except Exception as e: (the handler around execution and validation)
OnException(fr, det) ==
    [fr EXCEPT !.errors = fr.errors \o <<ExecutionError(det), Traceback(det)>>,
               !.status = "error",
               !.result = NoneV,
               !.pc = "envelope"]

\* Mutant of OnInputErrors: the else branch that sets the status is missing.
OnInputErrors_NoStatus(fr) == [fr EXCEPT !.pc = "envelope"]

\* else: status = "error"  (execution skipped because of input errors)
OnInputErrors(fr) == [fr EXCEPT !.status = "error", !.pc = "envelope"]

\* if validate_output and 'return' in type_hints: ... the check of the
\* returned value; "skip" when no check is made, "TypeError" when the test
\* of the return type raises.
OutputCheck(f, o, env, v) ==
    IF ~(o.validate_output /\ "return" \in TypeHints(f)) THEN "skip"
    ELSE IF IsBaseModel(f.ret, env) = "False" THEN "skip"
    ELSE IF IsBaseModel(f.ret, env) = "TypeError" THEN "TypeError"
    ELSE Coerce(v, f.ret)

\* The frame after the output validation block.
AfterOutputCheck(fr, c) ==
    IF c = "ValidationError" THEN
        [fr EXCEPT !.errors = Append(@, OutputFailed),
                   !.status = "error",
                   !.pc = "envelope"]
    ELSE IF c \in {"AttributeError", "TypeError"} THEN OnException(fr, c)
    ELSE [fr EXCEPT !.pc = "envelope"]

\* errors if errors else None
OptionalErrors(errors) ==
    IF errors = <<>> THEN [isNone |-> TRUE, list |-> <<>>]
    ELSE [isNone |-> FALSE, list |-> errors]

\* ExecutionResult(result=..., status=..., errors=..., function_name=...)
ExecutionResult(result, status, errors, name) ==
    [result |-> result, status |-> status, errors |-> OptionalErrors(errors),
     function_name |-> name]

NoEnvelope == ExecutionResult(NoneV, "", <<>>, "")

\* model_dump(): a BaseModel held in a field is dumped to a mapping of its
\* fields; every other value is kept as it is.
ModelDump(env) ==
    [env EXCEPT !.result =
        IF @.kind = "model" THEN Dict(@.payload) ELSE @]

\* The mapping execution_result.model_dump() as a Python value.
EnvelopeValue(env) ==
    [kind |-> "envelope", cls |-> "", payload |-> EmptyPayload,
     env |-> ModelDump(env)]

\* Mutant of LogLevelFor: the configured level is used on failure too.
LogLevelFor_Configured(status, level) ==
    IF Upper(level) = "DEBUG" THEN "DEBUG" ELSE "INFO"

\* The logger method called: error on failure, else debug or info.
LogLevelFor(status, level) ==
    IF status = "success" THEN
        IF Upper(level) = "DEBUG" THEN "DEBUG" ELSE "INFO"
    ELSE "ERROR"

\* LOG_LEVEL = int(os.getenv("LOG_LEVEL", 10))
DefaultLogLevel == 10

\* The values LOG_LEVEL is given: its default, and the level the
\* configuration names in its comment (INFO).
Thresholds == {DefaultLogLevel, 20}

\* The number of the level of a logger method.
LevelNumber(level) ==
    IF level = "DEBUG" THEN 10 ELSE IF level = "INFO" THEN 20 ELSE 40

\* make_filtering_bound_logger(LOG_LEVEL): a method whose level is below the
\* threshold does nothing.
Passes(level, threshold) == LevelNumber(level) >= threshold

LogMessage(status) ==
    IF status = "success" THEN "Function executed successfully"
    ELSE "Function execution failed"

\* Mutant of ReturnValue: the status is not looked at.
ReturnValue_IgnoresStatus(o, status, result, env) ==
    IF o.return_raw_result THEN result ELSE EnvelopeValue(env)

\* Mutant of ReturnValue: return_raw_result is not looked at.
ReturnValue_AlwaysEnvelope(o, status, result, env) == EnvelopeValue(env)

\* if return_raw_result and status == "success": return result
\* else: return execution_result.model_dump()
ReturnValue(o, status, result, env) ==
    IF o.return_raw_result /\ status = "success" THEN result
    ELSE EnvelopeValue(env)

(***************************************************************************)
(* State machine                                                           *)
(***************************************************************************)
Pending == [kind |-> "pending", cls |-> "", payload |-> EmptyPayload]

NoBody == [raised |-> FALSE, value |-> NoneV]

\* errors = []; result = None; status = "success"
NewFrame(d, a) ==
    [depth |-> d, pc |-> "validate_input", args |-> a, errors |-> <<>>,
     attempted |-> {}, result |-> NoneV, status |-> "success",
     built |-> FALSE, envelope |-> NoEnvelope, calls |-> 0]

ArgLists == UNION {[1..n -> ArgVals] : n \in 0..MaxArgs}

Top == frames[Len(frames)]

SetTop(fr) == [frames EXCEPT ![Len(frames)] = fr]

Idle == frames = <<>>

\* The environment the module was loaded with.
Env == [python |-> python, metaclass |-> metaclass]

\* The decorated callable as it stands after the module is loaded.
InitWith(optSet, wrapSet) ==
    /\ func \in Funcs
    /\ opts \in optSet
    /\ wraps \in wrapSet
    /\ python \in Pythons
    /\ metaclass \in Metaclasses
    /\ LOG_LEVEL \in Thresholds
    /\ args = <<>>
    /\ frames = <<>>
    /\ log = <<>>
    /\ emitted = <<>>
    /\ ret = Pending
    /\ invoked = 0
    /\ received = <<>>
    /\ body = NoBody

Init == InitWith(Options, {1})

InitTwice == InitWith(PlainOptions, 1..MaxWraps)

\* The caller calls the decorated callable: wrapper(*args).
Call ==
    /\ Idle
    /\ \E a \in ArgLists :
        /\ args' = a
        /\ frames' = <<NewFrame(1, a)>>
    /\ log' = <<>>
    /\ emitted' = <<>>
    /\ ret' = Pending
    /\ invoked' = 0
    /\ received' = <<>>
    /\ body' = NoBody
    /\ UNCHANGED <<func, opts, wraps, python, metaclass, LOG_LEVEL>>

\* The input validation block.
ValidateInput ==
    /\ frames # <<>>
    /\ Top.pc = "validate_input"
    /\ LET r == ValidateInputs(func, opts, Env, Top.args)
       IN  frames' = SetTop([Top EXCEPT !.errors = r.errors,
                                        !.attempted = r.attempted,
                                        !.pc = "execute"])
    /\ UNCHANGED <<func, opts, wraps, python, metaclass, LOG_LEVEL, args, log,
                   emitted, ret, invoked, received, body>>

\* result = func(*args, **kwargs), or its skipping.  The underlying callable
\* of every wrapper but the innermost is the next wrapper, which accepts any
\* arguments; the function itself raises TypeError, before its body runs,
\* when the arguments do not bind.
Execute ==
    /\ frames # <<>>
    /\ Top.pc = "execute"
    /\ IF ~ShouldExecute(Top.errors) THEN
            /\ frames' = SetTop(OnInputErrors(Top))
            /\ UNCHANGED <<invoked, received, body>>
       ELSE IF Top.depth < wraps THEN
            /\ frames' = Append(SetTop([Top EXCEPT !.calls = @ + 1,
                                                   !.pc = "awaiting"]),
                                NewFrame(Top.depth + 1, Top.args))
            /\ UNCHANGED <<invoked, received, body>>
       ELSE IF ~Binds(func, Top.args) THEN
            /\ frames' = SetTop(OnException([Top EXCEPT !.calls = @ + 1],
                                            "TypeError"))
            /\ UNCHANGED <<invoked, received, body>>
       ELSE \E o \in Outcomes :
            /\ body' = o
            /\ invoked' = invoked + 1
            /\ received' = Top.args
            /\ frames' = SetTop(
                    IF o.raised
                    THEN OnException([Top EXCEPT !.calls = @ + 1], "ValueError")
                    ELSE [Top EXCEPT !.calls = @ + 1,
                                     !.result = o.value,
                                     !.pc = "validate_output"])
    /\ UNCHANGED <<func, opts, wraps, python, metaclass, LOG_LEVEL, args, log,
                   emitted, ret>>

\* The output validation block.
ValidateOutput ==
    /\ frames # <<>>
    /\ Top.pc = "validate_output"
    /\ frames' = SetTop(AfterOutputCheck(Top, OutputCheck(func, opts, Env,
                                                    Top.result)))
    /\ UNCHANGED <<func, opts, wraps, python, metaclass, LOG_LEVEL, args, log,
                   emitted, ret, invoked, received, body>>

\* execution_result = ExecutionResult(...)
BuildEnvelope ==
    /\ frames # <<>>
    /\ Top.pc = "envelope"
    /\ frames' = SetTop([Top EXCEPT
            !.envelope = ExecutionResult(Top.result, Top.status, Top.errors,
                                         func.name),
            !.built = TRUE,
            !.pc = "log"])
    /\ UNCHANGED <<func, opts, wraps, python, metaclass, LOG_LEVEL, args, log,
                   emitted, ret, invoked, received, body>>

\* if log_execution: logger.debug / info / error(message, **log_data); the
\* logger writes the record when the method's level reaches LOG_LEVEL.
LogExecution ==
    /\ frames # <<>>
    /\ Top.pc = "log"
    /\ LET record == [level |-> LogLevelFor(Top.status, opts.log_level),
                      message |-> LogMessage(Top.status),
                      fields |-> ModelDump(Top.envelope),
                      depth |-> Top.depth]
       IN  /\ log' = IF opts.log_execution THEN Append(log, record) ELSE log
           /\ emitted' = IF opts.log_execution /\ Passes(record.level, LOG_LEVEL)
                         THEN Append(emitted, record)
                         ELSE emitted
    /\ frames' = SetTop([Top EXCEPT !.pc = "return"])
    /\ UNCHANGED <<func, opts, wraps, python, metaclass, LOG_LEVEL, args, ret,
                   invoked, received, body>>

\* The return statement: to the caller, or to the wrapper that called.
Return ==
    /\ frames # <<>>
    /\ Top.pc = "return"
    /\ LET v == ReturnValue(opts, Top.status, Top.result, Top.envelope)
       IN  IF Top.depth = 1 THEN
                /\ frames' = SetTop([Top EXCEPT !.pc = "done"])
                /\ ret' = v
           ELSE
                /\ frames' = [i \in 1..(Len(frames) - 1) |->
                                IF i = Len(frames) - 1
                                THEN [frames[i] EXCEPT !.result = v,
                                                       !.pc = "validate_output"]
                                ELSE frames[i]]
                /\ ret' = ret
    /\ UNCHANGED <<func, opts, wraps, python, metaclass, LOG_LEVEL, args, log,
                   emitted, invoked, received, body>>

\* The caller has taken what the wrapper returned; the wrapper keeps nothing
\* of the call.
Collect ==
    /\ frames # <<>>
    /\ Top.pc = "done"
    /\ args' = <<>>
    /\ frames' = <<>>
    /\ log' = <<>>
    /\ emitted' = <<>>
    /\ ret' = Pending
    /\ invoked' = 0
    /\ received' = <<>>
    /\ body' = NoBody
    /\ UNCHANGED <<func, opts, wraps, python, metaclass, LOG_LEVEL>>

Next ==
    \/ Call
    \/ ValidateInput
    \/ Execute
    \/ ValidateOutput
    \/ BuildEnvelope
    \/ LogExecution
    \/ Return
    \/ Collect

Spec == Init /\ [][Next]_vars

SpecTwice == InitTwice /\ [][Next]_vars

(***************************************************************************)
(* Vocabulary of the properties                                            *)
(***************************************************************************)
HasPrefix(errs, pre) == \E i \in 1..Len(errs) : errs[i].prefix = pre

CountPrefix(errs, pre) ==
    Cardinality({i \in 1..Len(errs) : errs[i].prefix = pre})

HasInputError(errs) ==
    \/ HasPrefix(errs, "Input validation failed for")
    \/ HasPrefix(errs, "Input validation error:")

\* Positions of the wrapper's body.
AfterInput ==
    {"execute", "awaiting", "validate_output", "envelope", "log", "return",
     "done"}

AfterTry == {"envelope", "log", "return", "done"}

AfterLog == {"return", "done"}

Running == frames # <<>>

\* The function declares a parameter type or a return type.
Annotated(f) ==
    f.ret # "" \/ \E i \in 1..Len(f.params) : f.params[i].hint # ""

\* The parameters declared with a structured-record type.
ShapeParams(f) == {i \in 1..Len(f.params) : f.params[i].hint \in Shapes}

\* The value is not an instance of the shape and offers a mapping that the
\* shape rejects.
Violates(v, shape) ==
    /\ ~IsInstance(v, shape)
    /\ IsDict(v) \/ HasDict(v)
    /\ ~Validate(shape, PayloadOf(v))

\* The value is not an instance of the shape and is neither a mapping nor an
\* object with a field dict.
NoFieldDict(v, shape) == ~IsInstance(v, shape) /\ ~IsDict(v) /\ ~HasDict(v)

\* The accept-or-coerce check of the value against the shape fails.
CheckFails(v, shape) == Violates(v, shape) \/ NoFieldDict(v, shape)

(***************************************************************************)
(* C1                                                                      *)
(***************************************************************************)
\* C1: in every envelope built, status is "error" exactly when the error
\* list is non-empty, and "success" exactly when errors is None.
Thm_C1 ==
    \A i \in 1..Len(frames) :
        frames[i].built =>
            LET e == frames[i].envelope
            IN  /\ e.status \in {"success", "error"}
                /\ e.status = "error" <=> e.errors.list # <<>>
                /\ e.status = "success" <=> e.errors.isNone
                /\ e.errors.isNone <=> e.errors.list = <<>>

\* An envelope built after input errors kept the function from running.
Wit_C1 ==
    /\ Running
    /\ Top.built
    /\ Top.envelope.status = "error"
    /\ HasInputError(Top.envelope.errors.list)
    /\ Top.calls = 0

(***************************************************************************)
(* C2                                                                      *)
(***************************************************************************)
\* The gatekeeping part of C2: an input error keeps the underlying callable
\* from being called and makes the status "error"; the callable is called
\* at most once, without input error, with the caller's arguments.
Gatekeeps(fr) ==
    /\ HasInputError(fr.errors) =>
            /\ fr.calls = 0
            /\ invoked = 0
            /\ fr.pc \in AfterTry => fr.status = "error"
    /\ fr.calls > 0 => ~HasInputError(fr.errors)
    /\ fr.calls <= 1
    /\ invoked <= 1
    /\ invoked = 1 => received = args /\ fr.calls = 1

CallRaised(fr) == fr.calls = 1 /\ (invoked = 0 \/ body.raised)

\* An "Execution error:" entry directly followed by a traceback entry.
HasExecutionTrace(errs) ==
    \E k \in 1..Len(errs) :
        /\ errs[k].prefix = "Execution error:"
        /\ k + 1 <= Len(errs)
        /\ errs[k + 1].prefix = "Traceback:"

\* C3: when the underlying function raises, the wrapper goes on to build the
\* envelope and returns it, whatever return_raw_result says: status "error",
\* result None, errors holding "Execution error: <message>" followed by a
\* traceback entry.
Thm_C3 ==
    (Running /\ wraps = 1 /\ CallRaised(Top)) =>
        /\ Top.pc \in AfterTry
        /\ Top.status = "error"
        /\ Top.result = NoneV
        /\ HasExecutionTrace(Top.errors)
        /\ Top.pc # "done" => ENABLED (BuildEnvelope \/ LogExecution \/ Return)
        /\ Top.built =>
                /\ Top.envelope.status = "error"
                /\ Top.envelope.result = NoneV
                /\ Top.envelope.errors.list = Top.errors
        /\ Top.pc = "done" =>
                /\ ret.kind = "envelope"
                /\ ret.env.status = "error"
                /\ ret.env.result = NoneV
                /\ HasExecutionTrace(ret.env.errors.list)

\* divide_numbers(10, 0) raised in its body and the caller, who asked for
\* raw results, holds the envelope.
Wit_C3 ==
    /\ Running
    /\ func = divide_numbers
    /\ args = <<Num, Num>>
    /\ opts.return_raw_result
    /\ invoked = 1
    /\ body.raised
    /\ Top.pc = "done"
    /\ ret.kind = "envelope"
    /\ ret.env.errors.list = <<ExecutionError("ValueError"), Traceback("ValueError")>>

(***************************************************************************)
(* C4                                                                      *)
(***************************************************************************)
\* The caller received the value the function's body returned.
ReceivedBare == invoked = 1 /\ ~body.raised /\ ret = body.value

\* C4: the caller receives the bare return value exactly when
\* return_raw_result is set and the status is "success"; in every other case
\* it receives the envelope as a mapping of its fields.
Thm_C4 ==
    (Running /\ wraps = 1 /\ Top.pc = "done") =>
        /\ ReceivedBare <=> (opts.return_raw_result /\ Top.status = "success")
        /\ ~ReceivedBare =>
                /\ ret.kind = "envelope"
                /\ ret.env.status = Top.status
                /\ ret.env.errors.list = Top.errors
                /\ ret.env.errors.isNone <=> Top.errors = <<>>
                /\ ret.env.function_name = func.name
                /\ ret.env.result =
                        IF Top.result.kind = "model"
                        THEN Dict(Top.result.payload)
                        ELSE Top.result

\* create_user returned a UserOutput and the caller, who asked for raw
\* results, holds that very instance.
Wit_C4 ==
    /\ Running
    /\ Top.pc = "done"
    /\ opts.return_raw_result
    /\ Top.status = "success"
    /\ func = create_user
    /\ ret = Model("UserOutput", GoodOutput)
    /\ ReceivedBare

(***************************************************************************)
(* C5                                                                      *)
(***************************************************************************)
\* The claim about a sequence of log records: none before the logging step
\* nor without log_execution; with log_execution, after the logging step,
\* exactly one, made of the envelope built, at ERROR when the status is
\* "error" and at the configured level (DEBUG or INFO) otherwise.
OneRecord(records) ==
    /\ Top.pc \notin AfterLog => records = <<>>
    /\ (Top.pc \in AfterLog /\ ~opts.log_execution) => records = <<>>
    /\ (Top.pc \in AfterLog /\ opts.log_execution) =>
            /\ Len(records) = 1
            /\ Top.built
            /\ records[1].fields.status = Top.status
            /\ records[1].fields.errors.list = Top.errors
            /\ Top.status = "error" => records[1].level = "ERROR"
            /\ Top.status = "success" =>
                    /\ records[1].level \in {"DEBUG", "INFO"}
                    /\ opts.log_level \in {"DEBUG", "INFO"} =>
                            records[1].level = opts.log_level

\* C5 as stated: with log_execution, every invocation emits exactly one
\* record, after the envelope is built and before the wrapper returns, at
\* ERROR when the status is "error" and at the configured level otherwise;
\* without log_execution, no record is emitted.
Orig_C5 == (Running /\ wraps = 1) => OneRecord(emitted)

\* C5 amended: with log_execution, every invocation makes exactly one call
\* on the logger, after the envelope is built and before the wrapper
\* returns, at ERROR when the status is "error" and at the configured level
\* (DEBUG or INFO) otherwise; the logger emits the call as one record when
\* its level reaches the LOG_LEVEL threshold and emits nothing otherwise, so
\* that under the default threshold exactly one record is emitted; without
\* log_execution, no call is made and no record emitted.
Thm_C5 ==
    (Running /\ wraps = 1) =>
        /\ OneRecord(log)
        /\ emitted = SelectSeq(log, LAMBDA r : Passes(r.level, LOG_LEVEL))
        /\ LOG_LEVEL = DefaultLogLevel => emitted = log

\* Under the threshold of INFO, a failed invocation configured to log at
\* DEBUG made one call at ERROR, which was emitted.
Wit_C5 ==
    /\ Running
    /\ Top.pc = "return"
    /\ opts.log_execution
    /\ opts.log_level = "DEBUG"
    /\ LOG_LEVEL = 20
    /\ Top.status = "error"
    /\ Len(log) = 1
    /\ log[1].level = "ERROR"
    /\ emitted = log

(***************************************************************************)
(* C6                                                                      *)
(***************************************************************************)
\* C6 as stated: with validate_input, a parameter whose declared type is
\* not a structured-record type (a number, a string, a generic or container
\* type, no type) is never the subject of a coercion attempt nor of an input
\* error; a function with only such parameters, called with arguments that
\* bind, is always invoked.
Orig_C6 ==
    (Running /\ wraps = 1 /\ opts.validate_input /\ Top.pc \in AfterInput) =>
        /\ \A i \in 1..Len(func.params) :
                func.params[i].hint \notin Shapes =>
                    /\ func.params[i].name \notin Top.attempted
                    /\ \A k \in 1..Len(Top.errors) :
                            Top.errors[k].param # func.params[i].name
        /\ (ShapeParams(func) = {} /\ Binds(func, args)) =>
                /\ ~HasInputError(Top.errors)
                /\ Top.pc # "execute" =>
                        /\ Top.calls = 1
                        /\ invoked = 1
                        /\ received = args

(***************************************************************************)
(* C7                                                                      *)
(***************************************************************************)
\* C7 as stated: with validate_input, for any wrapped function, annotated or
\* not, arguments that do not bind are recorded as "Input validation
\* error:", the status is "error" and the function is not called.
Orig_C7 ==
    (Running /\ wraps = 1 /\ opts.validate_input /\ ~Binds(func, args)
        /\ Top.pc \in AfterTry) =>
        /\ HasPrefix(Top.errors, "Input validation error:")
        /\ Top.status = "error"
        /\ Top.calls = 0
        /\ invoked = 0

(***************************************************************************)
(* C8                                                                      *)
(***************************************************************************)
\* The result found under n successful envelopes.
RECURSIVE Unwrapped(_, _)
Unwrapped(v, n) ==
    IF n = 0 THEN v
    ELSE IF v.kind = "envelope" /\ v.env.status = "success"
         THEN Unwrapped(v.env.result, n - 1)
         ELSE Pending

\* The outermost wrapper returned and the function's body returned a value.
ReturnedNormally ==
    /\ Running
    /\ frames[1].pc = "done"
    /\ invoked = 1
    /\ ~body.raised

\* C8 as stated: decorated twice with validate_input, validate_output and
\* log_execution off and the other options at their defaults, the callable
\* returns what the function returns.
Orig_C8 ==
    (ReturnedNormally /\ wraps = 2 /\ ~opts.return_raw_result) =>
        ret = body.value

\* C8 amended: that holds with return_raw_result set as well; with
\* return_raw_result at its default the callable returns a "success"
\* envelope for each application of the decorator, one in the result of the
\* other, around the function's value (a BaseModel instance dumped to a
\* mapping).
Thm_C8 ==
    ReturnedNormally =>
        /\ opts.return_raw_result => ret = body.value
        /\ ~opts.return_raw_result =>
                /\ ret.kind = "envelope"
                /\ Unwrapped(ret, wraps) =
                        IF body.value.kind = "model"
                        THEN Dict(body.value.payload)
                        ELSE body.value

\* Decorated twice with raw results, create_user returned its UserOutput.
Wit_C8 ==
    /\ ReturnedNormally
    /\ wraps = 2
    /\ opts.return_raw_result
    /\ func = create_user
    /\ ret = Model("UserOutput", GoodOutput)
    /\ ret = body.value

(***************************************************************************)
(* C9                                                                      *)
(***************************************************************************)
\* C9 as stated: when the function returned, validate_output is set and the
\* declared return type is a structured-record type, every failure of the
\* accept-or-coerce check on the returned value gives status "error", an
\* "Output validation failed:" entry, no "Execution error:" entry, and an
\* envelope whose result is the returned value.
Orig_C9 ==
    (Running /\ wraps = 1 /\ invoked = 1 /\ ~body.raised
        /\ opts.validate_output /\ func.ret \in Shapes
        /\ CheckFails(body.value, func.ret) /\ Top.pc \in AfterTry) =>
        /\ Top.status = "error"
        /\ HasPrefix(Top.errors, "Output validation failed:")
        /\ ~HasPrefix(Top.errors, "Execution error:")
        /\ Top.result = body.value
        /\ Top.built => Top.envelope.result = body.value

(***************************************************************************)
(* C10                                                                     *)
(***************************************************************************)
\* The arguments bound to a parameter of a declared shape that fail the
\* accept-or-coerce check.
FailingArgs(f, a) ==
    {i \in ShapeParams(f) :
        CheckFails(BoundArguments(f, a)[i], f.params[i].hint)}

\* C10 as stated: with validate_input and arguments that bind, every failing
\* argument has its own "Input validation failed for <param>:" entry, so
\* there are as many such entries as failing arguments, however an earlier
\* argument failed.
Orig_C10 ==
    (Running /\ wraps = 1 /\ opts.validate_input /\ Binds(func, args)
        /\ Top.pc \in AfterInput) =>
        /\ CountPrefix(Top.errors, "Input validation failed for") =
                Cardinality(FailingArgs(func, args))
        /\ \A i \in FailingArgs(func, args) :
                \E k \in 1..Len(Top.errors) :
                    /\ Top.errors[k].prefix = "Input validation failed for"
                    /\ Top.errors[k].param = func.params[i].name

====
